---- MODULE Spec2Model ----
(***************************************************************************)
(* Model of the rHEALPix accessor for (Geo)DataFrames, rhppandas.rHPAccessor *)
(* (src/rhppandas/rhppandas.py).                                           *)
(*                                                                         *)
(* A table is a record                                                     *)
(*    kind    "df" (pandas.DataFrame) or "gdf" (geopandas.GeoDataFrame)    *)
(*    iname   the name of the index ("" when the index has no name)        *)
(*    index   the sequence of index values, one per row                    *)
(*    columns the column names in column order                             *)
(*    data    a function from the column names to sequences of values      *)
(* Every value is a tagged record [t |-> tag, v |-> payload], so that      *)
(* values of different Python types can be compared.  A string (a cell     *)
(* address is a string) is the sequence of its characters.                 *)
(***************************************************************************)
EXTENDS Integers, Sequences, FiniteSets, TLC

VARIABLES df, out, call, nops, adapter, input

vars == <<df, out, call, nops, adapter, input>>

-----------------------------------------------------------------------------
(* Bounds of the model                                                     *)

MaxRows == 2
MaxOps == 2
MaxRes == 15
MaxArgRes == 2
MaxRing == 2

-----------------------------------------------------------------------------
(* Values                                                                  *)

VNone == [t |-> "none", v |-> 0]
VInt(n) == [t |-> "int", v |-> n]
VBool(b) == [t |-> "bool", v |-> b]
VStr(s) == [t |-> "str", v |-> s]
VList(s) == [t |-> "list", v |-> s]
VPoint(p) == [t |-> "point", v |-> p]
VPolygon(ring) == [t |-> "polygon", v |-> ring]
VFloat(x) == [t |-> "float", v |-> x]
Raise(kind) == [t |-> "raise", v |-> kind]

IsRaise(x) == x.t = "raise"
IsNull(x) == x.t = "none"

-----------------------------------------------------------------------------
(* Sequence helpers                                                        *)

Range(s) == {s[i] : i \in DOMAIN s}

RECURSIVE SeqSum(_)
SeqSum(s) == IF s = <<>> THEN 0 ELSE Head(s) + SeqSum(Tail(s))

RECURSIVE Flatten(_)
Flatten(ss) == IF ss = <<>> THEN <<>> ELSE Head(ss) \o Flatten(Tail(ss))

Repeat(x, n) == [i \in 1..n |-> x]

SeqsUpTo(S, lo, hi) == UNION {[1..n -> S] : n \in lo..hi}

-----------------------------------------------------------------------------
(* Strings and column names                                                *)

Digit == <<"0", "1", "2", "3", "4", "5", "6", "7", "8", "9">>

(* str(n) for a natural number n *)
RECURSIVE DecStr(_)
DecStr(n) == IF n < 10 THEN Digit[n + 1] ELSE DecStr(n \div 10) \o Digit[(n % 10) + 1]

(* A variant without the zero padding, f"{resolution}" *)
Fmt_unpadded(resolution) == DecStr(resolution)

(* f"{resolution:02}": decimal digits, zero-padded to a width of at least 2 *)
Fmt02(resolution) == IF resolution < 10 THEN "0" \o DecStr(resolution) ELSE DecStr(resolution)

ResColumn(resolution) == "rhp_" \o Fmt02(resolution)

(* A variant that tests the resolution for truth, not for None *)
ParentColumn_truthy(resolution) ==
    IF resolution.t # "none" /\ resolution.v # 0 THEN ResColumn(resolution.v) ELSE "rhp_parent"

ParentColumn(resolution) == IF resolution.t # "none" THEN ResColumn(resolution.v) ELSE "rhp_parent"

-----------------------------------------------------------------------------
(* The grid adapter rhealpixdggs.rhp_wrappers, as the accessor and its     *)
(* tests use it.  A cell address is a base cell letter followed by one     *)
(* digit 0..8 per level (N_side = 3).                                      *)

BaseCells == {"N", "O", "P", "Q", "R", "S"}
ChildDigits == {"0", "1", "2", "3", "4", "5", "6", "7", "8"}
CentreDigit == "4"

RhpIsValidStr(a) ==
    /\ Len(a) >= 1
    /\ a[1] \in BaseCells
    /\ \A i \in 2..Len(a) : a[i] \in ChildDigits

rhp_is_valid(a) == VBool(RhpIsValidStr(a))

rhp_get_resolution(a) == IF RhpIsValidStr(a) THEN VInt(Len(a) - 1) ELSE VNone

rhp_get_base_cell(a) == IF RhpIsValidStr(a) THEN VStr(<<a[1]>>) ELSE VNone

cell_area(a, unit) == IF RhpIsValidStr(a) THEN VFloat(<<"area", Len(a) - 1, unit>>) ELSE VNone

(* The nested cells that contain the centre of cell a: its centre children *)
Centre(a) == a \o Repeat(CentreDigit, IF Len(a) <= MaxRes THEN MaxRes + 1 - Len(a) ELSE 0)

(* rhp_to_geo(a, geo_json=True, plane=False): the (lng, lat) of the centre *)
rhp_to_geo(a) ==
    IF RhpIsValidStr(a)
    THEN [t |-> "coords", v |-> <<VFloat(<<"lng", a>>), VFloat(<<"lat", a>>)>>]
    ELSE VNone

(* The closed ring of the four corners of cell a *)
BoundaryRing(a) == [k \in 1..5 |-> [cell |-> a, corner |-> ((k - 1) % 4) + 1]]

rhp_to_geo_boundary(a) ==
    IF RhpIsValidStr(a) THEN [t |-> "ring", v |-> BoundaryRing(a)] ELSE VNone

MismatchModes == {"none", "self", "raise"}

Mismatch(a, mode) ==
    IF mode = "none" THEN VNone
    ELSE IF mode = "self" THEN VStr(a)
    ELSE Raise("ValueError")

(* rhp_to_parent(a, res): the address cut to res + 1 characters, or by one *)
(* character when res is None.  What the adapter does with a resolution    *)
(* that is not coarser than the cell, or with a cell that has no parent, is *)
(* not fixed by the accessor or its tests: mode chooses among returning    *)
(* None, returning the address itself and raising.                         *)
rhp_to_parent(a, res, mode) ==
    IF ~RhpIsValidStr(a) THEN VNone
    ELSE IF res.t = "none"
         THEN (IF Len(a) = 1 THEN Mismatch(a, mode) ELSE VStr(SubSeq(a, 1, Len(a) - 1)))
         ELSE IF res.v < Len(a) - 1 THEN VStr(SubSeq(a, 1, res.v + 1))
         ELSE Mismatch(a, mode)

(* rhp_to_center_child(a, res): the address extended by centre digits to   *)
(* res + 1 characters, or by one digit when res is None.                   *)
rhp_to_center_child(a, res, mode) ==
    IF ~RhpIsValidStr(a) THEN VNone
    ELSE IF res.t = "none" THEN VStr(Append(a, CentreDigit))
         ELSE IF res.v >= Len(a) - 1 THEN VStr(a \o Repeat(CentreDigit, res.v + 1 - Len(a)))
         ELSE Mismatch(a, mode)

(* The cells of the test tables, and the points (lat, lng) they come from  *)
N216055147 == <<"N", "2", "1", "6", "0", "5", "5", "1", "4", "7">>
N208518546 == <<"N", "2", "0", "8", "5", "1", "8", "5", "4", "6">>
Invalid == <<"i", "n", "v", "a", "l", "i", "d">>

Locations == {<<50, 14>>, <<51, 15>>}

(* geo_to_rhp(lat, lng, resolution, plane=False): the cell of the given     *)
(* resolution that contains the point; cells are nested, so it is a prefix *)
(* of the finest cell of the point.                                        *)
FinestCell(lat, lng) ==
    IF lat.t = "int"
    THEN Centre(IF <<lat.v, lng.v>> = <<50, 14>> THEN N216055147 ELSE N208518546)
    ELSE Centre(lat.v[2])

geo_to_rhp(lat, lng, resolution) == VStr(SubSeq(FinestCell(lat, lng), 1, resolution + 1))

-----------------------------------------------------------------------------
(* shapely constructors                                                    *)

(* shapely.geometry.Point(x): None is not a coordinate sequence *)
Point(x) ==
    IF IsRaise(x) THEN x
    ELSE IF x.t = "coords" THEN VPoint(x.v)
    ELSE Raise("TypeError")

(* A variant of Polygon that rejects None as Point does *)
Polygon_strict(x) ==
    IF IsRaise(x) THEN x
    ELSE IF x.t = "ring" THEN VPolygon(x.v)
    ELSE Raise("TypeError")

(* shapely.geometry.Polygon(x): Polygon(None) is the empty polygon *)
Polygon(x) ==
    IF IsRaise(x) THEN x
    ELSE IF x.t = "ring" THEN VPolygon(x.v)
    ELSE IF x.t = "none" THEN VPolygon(<<>>)
    ELSE Raise("TypeError")

(* list(x): None is not iterable *)
List(x) ==
    IF IsRaise(x) THEN x
    ELSE IF x.t = "list" THEN x
    ELSE Raise("TypeError")

Identity(x) == x

(* The processors the accessor passes to the engine *)
Process(processor, x) ==
    CASE processor = "Point" -> Point(x)
      [] processor = "Polygon" -> Polygon(x)
      [] processor = "list" -> List(x)
      [] OTHER -> Identity(x)

-----------------------------------------------------------------------------
(* pandas / geopandas table operations                                     *)

NRows(t) == Len(t.index)

HasColumn(t, name) == name \in Range(t.columns)

(* DataFrame.assign of one column: a copy with the column replaced in      *)
(* place or appended                                                       *)
Assign(t, name, values) ==
    [kind |-> t.kind,
     iname |-> t.iname,
     index |-> t.index,
     columns |-> IF HasColumn(t, name) THEN t.columns ELSE Append(t.columns, name),
     data |-> [c \in Range(t.columns) \cup {name} |-> IF c = name THEN values ELSE t.data[c]]]

(* DataFrame.set_index(name): the column becomes the index and is dropped  *)
(* from the columns                                                        *)
SetIndex(t, name) ==
    [kind |-> t.kind,
     iname |-> name,
     index |-> t.data[name],
     columns |-> SelectSeq(t.columns, LAMBDA c : c # name),
     data |-> [c \in Range(t.columns) \ {name} |-> t.data[c]]]

(* gpd.GeoDataFrame(x, crs="epsg:4326") *)
GeoDataFrame(t) == [t EXCEPT !.kind = "gdf"]

(* The finalizers the accessor passes to the engine *)
Finalize(finalizer, t) == IF finalizer = "GeoDataFrame" THEN GeoDataFrame(t) ELSE Identity(t)

(* The cell addresses of the index *)
Cells(t) == {x.v : x \in Range(t.index)}

Ok(t) == [ok |-> TRUE, tbl |-> t]
Err(kind) == [ok |-> FALSE, err |-> kind]

-----------------------------------------------------------------------------
(* The row transform engine                                                *)

(* The outcome of the list comprehension                                    *)
(*   [processor(func(rhpaddress)) for rhpaddress in self._df.index]        *)
(* is the list of results, or the first exception raised                   *)
FirstRaise(result) ==
    LET bad == {i \in DOMAIN result : IsRaise(result[i])}
    IN  result[CHOOSE i \in bad : \A j \in bad : i <= j].v

(* A variant that catches the failure of a row and stores a missing value *)
apply_index_assign_lenient(t, func, column_name, processor, finalizer) ==
    LET result == [i \in 1..NRows(t) |->
                     IF IsRaise(Process(processor, func[t.index[i].v])) THEN VNone
                     ELSE Process(processor, func[t.index[i].v])]
    IN  Ok(Finalize(finalizer, Assign(t, column_name, result)))

(* A variant that pairs the results with the rows in reverse order *)
apply_index_assign_reversed(t, func, column_name, processor, finalizer) ==
    LET result == [i \in 1..NRows(t) |-> Process(processor, func[t.index[NRows(t) + 1 - i].v])]
    IN  IF \E i \in DOMAIN result : IsRaise(result[i])
        THEN Err(FirstRaise(result))
        ELSE Ok(Finalize(finalizer, Assign(t, column_name, result)))

apply_index_assign(t, func, column_name, processor, finalizer) ==
    LET result == [i \in 1..NRows(t) |-> Process(processor, func[t.index[i].v])]
    IN  IF \E i \in DOMAIN result : IsRaise(result[i])
        THEN Err(FirstRaise(result))
        ELSE Ok(Finalize(finalizer, Assign(t, column_name, result)))

(* The keys of the dict comprehension over self._df.index: the distinct    *)
(* index values in the order of their first occurrence                     *)
RECURSIVE DictKeys(_)
DictKeys(index) ==
    IF index = <<>> THEN <<>>
    ELSE LET init == DictKeys(SubSeq(index, 1, Len(index) - 1))
             last == index[Len(index)]
         IN  IF last \in Range(init) THEN init ELSE Append(init, last)

(* DataFrame.from_dict(d, orient="index").stack().to_frame(column_name)    *)
(* .reset_index(level=1, drop=True): one row (key, element) per element of *)
(* each list, keys in dict order, elements in list order; the cells that   *)
(* pad the shorter lists are missing values and stack() drops them         *)
Stacked(keys, d) ==
    Flatten([k \in 1..Len(keys) |->
                [j \in 1..Len(d[keys[k]].v) |-> <<keys[k], VStr(d[keys[k]].v[j])>>]])

(* A variant that follows the rows of the right table, as right.join(left) *)
(* does: every right row once per left row of the same key                 *)
JoinRows_right_major(t, right) ==
    Flatten([p \in 1..Len(right) |->
                LET m == SelectSeq([i \in 1..NRows(t) |-> i], LAMBDA i : t.index[i] = right[p][1])
                IN  [j \in 1..Len(m) |-> <<m[j], right[p][2]>>]])

(* The rows of self._df.join(right), a left join on the index: every left  *)
(* row once per right row of the same key, or once with a missing value    *)
JoinRows(t, right) ==
    Flatten([i \in 1..NRows(t) |->
                LET m == SelectSeq(right, LAMBDA p : p[1] = t.index[i])
                IN  IF m = <<>> THEN << <<i, VNone>> >>
                    ELSE [j \in 1..Len(m) |-> <<i, m[j][2]>>]])

Join(t, right, column_name) ==
    LET rows == JoinRows(t, right)
    IN  [kind |-> t.kind,
         iname |-> t.iname,
         index |-> [r \in 1..Len(rows) |-> t.index[rows[r][1]]],
         columns |-> Append(t.columns, column_name),
         data |-> [c \in Range(t.columns) \cup {column_name} |->
                     [r \in 1..Len(rows) |->
                         IF c = column_name THEN rows[r][2] ELSE t.data[c][rows[r][1]]]]]

(* A variant that drops an existing destination column before the join    *)
apply_index_explode_overwrite(t, func, column_name, processor, finalizer) ==
    LET keys == DictKeys(t.index)
        d == [a \in Range(t.index) |-> Process(processor, func[a.v])]
        results == [k \in 1..Len(keys) |-> d[keys[k]]]
        rest == [kind |-> t.kind,
                 iname |-> t.iname,
                 index |-> t.index,
                 columns |-> SelectSeq(t.columns, LAMBDA c : c # column_name),
                 data |-> [c \in Range(t.columns) \ {column_name} |-> t.data[c]]]
    IN  IF \E k \in DOMAIN results : IsRaise(results[k])
        THEN Err(FirstRaise(results))
        ELSE Ok(Finalize(finalizer, Join(rest, Stacked(keys, d), column_name)))

apply_index_explode(t, func, column_name, processor, finalizer) ==
    LET keys == DictKeys(t.index)
        d == [a \in Range(t.index) |-> Process(processor, func[a.v])]
        results == [k \in 1..Len(keys) |-> d[keys[k]]]
    IN  IF \E k \in DOMAIN results : IsRaise(results[k])
        THEN Err(FirstRaise(results))
        ELSE IF HasColumn(t, column_name)
             THEN Err("ValueError")
             ELSE Ok(Finalize(finalizer, Join(t, Stacked(keys, d), column_name)))

(* A variant that encodes a representative point of a geometry that is not *)
(* a point instead of failing                                              *)
geo_to_rhp_representative(t, resolution, set_index) ==
    LET isgeo == t.kind = "gdf"
        colname == ResColumn(resolution)
        rep == CHOOSE p \in Locations : TRUE
        xy == [i \in 1..NRows(t) |->
                 IF isgeo
                 THEN (IF t.data["geometry"][i].t = "point" THEN t.data["geometry"][i].v
                       ELSE <<VInt(rep[2]), VInt(rep[1])>>)
                 ELSE <<t.data["lng"][i], t.data["lat"][i]>>]
        rhpaddresses == [i \in 1..NRows(t) |-> geo_to_rhp(xy[i][2], xy[i][1], resolution)]
        assigned == Assign(t, colname, rhpaddresses)
    IN  IF ~isgeo /\ ~(HasColumn(t, "lng") /\ HasColumn(t, "lat"))
        THEN Err("KeyError")
        ELSE IF set_index THEN Ok(SetIndex(assigned, colname)) ELSE Ok(assigned)

(* geo_to_rhp: the coordinates of the rows, their addresses, the column    *)
(* and the index                                                           *)
geo_to_rhp_table(t, resolution, set_index) ==
    LET isgeo == t.kind = "gdf"
        colname == ResColumn(resolution)
        lngs == IF isgeo THEN [i \in 1..NRows(t) |-> t.data["geometry"][i].v[1]]
                ELSE t.data["lng"]
        lats == IF isgeo THEN [i \in 1..NRows(t) |-> t.data["geometry"][i].v[2]]
                ELSE t.data["lat"]
        rhpaddresses == [i \in 1..NRows(t) |-> geo_to_rhp(lats[i], lngs[i], resolution)]
        assigned == Assign(t, colname, rhpaddresses)
    IN  IF isgeo /\ \E i \in 1..NRows(t) : t.data["geometry"][i].t # "point"
        THEN Err("ValueError")
        ELSE IF ~isgeo /\ ~(HasColumn(t, "lng") /\ HasColumn(t, "lat"))
        THEN Err("KeyError")
        ELSE IF set_index THEN Ok(SetIndex(assigned, colname)) ELSE Ok(assigned)

-----------------------------------------------------------------------------
(* The accessor's state: df is the table the accessor was built on         *)
(* (self._df), out is what the last call returned or raised, call names    *)
(* the last call and its arguments, nops counts the calls made.  adapter   *)
(* is the imported grid adapter rhp_py where the accessor and its tests do *)
(* not fix it: mode is what it does with a mismatched resolution, ring[a]  *)
(* the number of neighbours it lists for the valid cell a at k >= 1.       *)
(* input is the table the caller built the first accessor on: tbl is what  *)
(* that table holds now, self tells whether it still is the self._df of    *)
(* the accessor in use.                                                    *)

NoCall == [op |-> "none", column |-> "", res |-> VNone, flag |-> FALSE, arg |-> <<>>]
NoOut == [ok |-> FALSE, err |-> "pending"]

Called(op, column, res, flag, arg) ==
    [op |-> op, column |-> column, res |-> res, flag |-> flag, arg |-> arg]

Returned == out.ok
Raised == ~out.ok /\ out.err # "pending"

AddressIndexed(t) == \A i \in 1..NRows(t) : t.index[i].t = "str"

ResArgs == {VNone} \cup {VInt(r) : r \in 0..MaxArgRes}
Units == {"km^2", "m^2"}

(* A variant that writes the result into self._df and returns self._df,    *)
(* as self._df[column_name] = result would                                 *)
Return_inplace(result, op, column, res, flag, arg) ==
    /\ nops < MaxOps
    /\ nops' = nops + 1
    /\ out' = result
    /\ call' = Called(op, column, res, flag, arg)
    /\ df' = IF result.ok THEN result.tbl ELSE df
    /\ input' = IF input.self THEN [input EXCEPT !.tbl = df'] ELSE input
    /\ UNCHANGED adapter

(* A call returns or raises; assign, set_index and join build new tables,  *)
(* and no method assigns to self._df or into it                            *)
Return(result, op, column, res, flag, arg) ==
    /\ nops < MaxOps
    /\ nops' = nops + 1
    /\ out' = result
    /\ call' = Called(op, column, res, flag, arg)
    /\ UNCHANGED <<df, adapter, input>>

rhp_to_geo_op ==
    /\ AddressIndexed(df)
    /\ Return(apply_index_assign(df, [a \in Cells(df) |-> rhp_to_geo(a)], "geometry",
                                 "Point", "GeoDataFrame"),
              "rhp_to_geo", "geometry", VNone, FALSE, <<>>)

rhp_to_geo_boundary_op ==
    /\ AddressIndexed(df)
    /\ Return(apply_index_assign(df, [a \in Cells(df) |-> rhp_to_geo_boundary(a)], "geometry",
                                 "Polygon", "GeoDataFrame"),
              "rhp_to_geo_boundary", "geometry", VNone, FALSE, <<>>)

rhp_get_resolution_op ==
    /\ AddressIndexed(df)
    /\ Return(apply_index_assign(df, [a \in Cells(df) |-> rhp_get_resolution(a)], "rhp_resolution",
                                 "identity", "identity"),
              "rhp_get_resolution", "rhp_resolution", VNone, FALSE, <<>>)

rhp_get_base_cell_op ==
    /\ AddressIndexed(df)
    /\ Return(apply_index_assign(df, [a \in Cells(df) |-> rhp_get_base_cell(a)], "rhp_base_cell",
                                 "identity", "identity"),
              "rhp_get_base_cell", "rhp_base_cell", VNone, FALSE, <<>>)

rhp_is_valid_op ==
    /\ AddressIndexed(df)
    /\ Return(apply_index_assign(df, [a \in Cells(df) |-> rhp_is_valid(a)], "rhp_is_valid",
                                 "identity", "identity"),
              "rhp_is_valid", "rhp_is_valid", VNone, FALSE, <<>>)

rhp_to_parent_op ==
    /\ AddressIndexed(df)
    /\ \E resolution \in ResArgs :
         Return(apply_index_assign(df, [a \in Cells(df) |-> rhp_to_parent(a, resolution, adapter.mode)],
                                   ParentColumn(resolution), "identity", "identity"),
                "rhp_to_parent", ParentColumn(resolution), resolution, FALSE, <<>>)

(* A variant that does not pass the resolution on to the adapter *)
rhp_to_center_child_default_res ==
    /\ AddressIndexed(df)
    /\ \E resolution \in ResArgs :
         Return(apply_index_assign(df, [a \in Cells(df) |-> rhp_to_center_child(a, VNone, adapter.mode)],
                                   "rhp_center_child", "identity", "identity"),
                "rhp_to_center_child", "rhp_center_child", resolution, FALSE, <<>>)

rhp_to_center_child_op ==
    /\ AddressIndexed(df)
    /\ \E resolution \in ResArgs :
         Return(apply_index_assign(df, [a \in Cells(df) |-> rhp_to_center_child(a, resolution, adapter.mode)],
                                   "rhp_center_child", "identity", "identity"),
                "rhp_to_center_child", "rhp_center_child", resolution, FALSE, <<>>)

cell_area_op ==
    /\ AddressIndexed(df)
    /\ \E unit \in Units :
         Return(apply_index_assign(df, [a \in Cells(df) |-> cell_area(a, unit)],
                                   "rhp_cell_area", "identity", "identity"),
                "cell_area", "rhp_cell_area", VNone, FALSE, <<unit>>)

(* rHPAccessor(df): the caller goes on with the table the last call        *)
(* returned, which is a new table and not the input                        *)
Accessor ==
    /\ out.ok
    /\ df' = out.tbl
    /\ out' = NoOut
    /\ call' = NoCall
    /\ input' = [input EXCEPT !.self = FALSE]
    /\ UNCHANGED <<nops, adapter>>

geo_to_rhp_op ==
    \E resolution \in 0..MaxRes, set_index \in BOOLEAN :
        Return(geo_to_rhp_table(df, resolution, set_index),
               "geo_to_rhp", ResColumn(resolution), VInt(resolution), set_index, <<>>)

(* The neighbourhood the adapter returns for a cell: a list of cells of    *)
(* the same resolution for a valid address (the cell itself for k = 0),    *)
(* None for an invalid one                                                 *)
Sibling(a, d) == [a EXCEPT ![Len(a)] = d]

(* The number of neighbours listed for cell a: adapter.ring has the cells  *)
(* of the tables of addresses, a cell that an encoding put into the index  *)
(* has the full number                                                     *)
RingLength(a) == IF a \in DOMAIN adapter.ring THEN adapter.ring[a] ELSE MaxRing

RingList(a, k) ==
    IF ~RhpIsValidStr(a) THEN VNone
    ELSE IF k = 0 \/ Len(a) = 1 THEN VList(<<a>>)
    ELSE VList([j \in 1..RingLength(a) |-> Sibling(a, Digit[j])])

(* k = 0 and k = 1 stand for the two cases of the distance *)
Distances == {0, 1}

Ring(op, column_name, modes) ==
    /\ AddressIndexed(df)
    /\ \E k \in Distances, explode \in modes :
         LET f == [a \in Cells(df) |-> RingList(a, k)]
         IN  Return(IF explode
                    THEN apply_index_explode(df, f, column_name, "list", "identity")
                    ELSE apply_index_assign(df, f, column_name, "list", "identity"),
                    op, column_name, VInt(k), explode, f)

k_ring_op == Ring("k_ring", "rhp_k_ring", BOOLEAN)

cell_ring_op == Ring("cell_ring", "rhp_cell_ring", BOOLEAN)

(* The two with explode=False only *)
k_ring_map == Ring("k_ring", "rhp_k_ring", {FALSE})

cell_ring_map == Ring("cell_ring", "rhp_cell_ring", {FALSE})

(* Both aggregations take no argument and are not implemented *)
geo_to_rhp_aggregate_op ==
    \E resolution \in ResArgs :
        Return(Err(IF resolution.t = "none" THEN "NotImplementedError" ELSE "TypeError"),
               "geo_to_rhp_aggregate", "", resolution, FALSE, <<>>)

rhp_to_parent_aggregate_op ==
    /\ AddressIndexed(df)
    /\ \E resolution \in ResArgs :
        Return(Err(IF resolution.t = "none" THEN "NotImplementedError" ELSE "TypeError"),
               "rhp_to_parent_aggregate", "", resolution, FALSE, <<>>)

-----------------------------------------------------------------------------
(* The tables the calls start from                                         *)

N216055611 == <<"N", "2", "1", "6", "0", "5", "5", "6", "1", "1">>
N2 == <<"N", "2">>

IndexPool == {N216055611, N2, Invalid}

Vals(n) == [i \in 1..n |-> VInt(i)]

RangeIndex(n) == [i \in 1..n |-> VInt(i - 1)]

(* pd.DataFrame({"val": ...}, index=addresses) *)
IndexedTables ==
    {[kind |-> "df", iname |-> "", index |-> [i \in 1..Len(ix) |-> VStr(ix[i])],
      columns |-> <<"val">>, data |-> [c \in {"val"} |-> Vals(Len(ix))]] :
        ix \in SeqsUpTo(IndexPool, 1, MaxRows)}

(* pd.DataFrame({"lat": ..., "lng": ...}).assign(val=...) *)
PlainTables ==
    {[kind |-> "df", iname |-> "", index |-> RangeIndex(Len(ps)),
      columns |-> <<"lat", "lng", "val">>,
      data |-> [c \in {"lat", "lng", "val"} |->
                  IF c = "lat" THEN [i \in 1..Len(ps) |-> VInt(ps[i][1])]
                  ELSE IF c = "lng" THEN [i \in 1..Len(ps) |-> VInt(ps[i][2])]
                  ELSE Vals(Len(ps))]] :
        ps \in SeqsUpTo(Locations, 1, MaxRows)}

(* box(0, 0, 1, 1) *)
Box == VPolygon([k \in 1..5 |-> [cell |-> <<"b", "o", "x">>, corner |-> ((k - 1) % 4) + 1]])

Geometries == {VPoint(<<VInt(p[2]), VInt(p[1])>>) : p \in Locations} \cup {Box}

(* gpd.GeoDataFrame(geometry=..., crs="epsg:4326").assign(val=...) *)
GeoTables ==
    {[kind |-> "gdf", iname |-> "", index |-> RangeIndex(Len(gs)),
      columns |-> <<"geometry", "val">>,
      data |-> [c \in {"geometry", "val"} |-> IF c = "geometry" THEN gs ELSE Vals(Len(gs))]] :
        gs \in SeqsUpTo(Geometries, 1, MaxRows)}

ValidPool == {a \in IndexPool : RhpIsValidStr(a)}

Adapters(modes, lengths) ==
    {[mode |-> m, ring |-> r] : m \in modes, r \in [ValidPool -> lengths]}

Start(tables, adapters) ==
    /\ df \in tables
    /\ adapter \in adapters
    /\ input = [tbl |-> df, self |-> TRUE]
    /\ out = NoOut
    /\ call = NoCall
    /\ nops = 0

(* Map mode, on tables indexed by addresses *)
Init == Start(IndexedTables, Adapters(MismatchModes, {MaxRing}))

Next ==
    \/ rhp_to_geo_op
    \/ rhp_to_geo_boundary_op
    \/ rhp_get_resolution_op
    \/ rhp_get_base_cell_op
    \/ rhp_is_valid_op
    \/ k_ring_map
    \/ cell_ring_map
    \/ rhp_to_parent_op
    \/ rhp_to_center_child_op
    \/ cell_area_op
    \/ Accessor

Spec == Init /\ [][Next]_vars

(* The neighbourhood operations in both modes *)
InitExplode == Start(IndexedTables, Adapters({"none"}, 0..MaxRing))

NextExplode ==
    \/ k_ring_op
    \/ cell_ring_op
    \/ Accessor

SpecExplode == InitExplode /\ [][NextExplode]_vars

(* The coordinate encoder, on tables of coordinates and of geometries *)
InitEncode == Start(PlainTables \cup GeoTables, Adapters({"none"}, {MaxRing}))

NextEncode ==
    \/ geo_to_rhp_op
    \/ Accessor

SpecEncode == InitEncode /\ [][NextEncode]_vars

(* The aggregations, on every table *)
InitAggregate == Start(IndexedTables \cup PlainTables \cup GeoTables, Adapters({"none"}, {MaxRing}))

NextAggregate ==
    \/ geo_to_rhp_aggregate_op
    \/ rhp_to_parent_aggregate_op

SpecAggregate == InitAggregate /\ [][NextAggregate]_vars

(* basic_dataframe_with_values *)
BasicDataframe ==
    {t \in PlainTables : t.data["lat"] = <<VInt(50), VInt(51)>> /\ t.data["lng"] = <<VInt(14), VInt(15)>>}

(* Every operation: chains that encode a table of coordinates, then        *)
(* navigate or take neighbourhoods, on the tables of one row and on the    *)
(* table of the tests, with the calls that fail among them                 *)
InitAll ==
    Start(BasicDataframe
              \cup {t \in PlainTables \cup IndexedTables \cup GeoTables : NRows(t) = 1},
          Adapters({"raise"}, {MaxRing}))

NextAll ==
    \/ geo_to_rhp_op
    \/ rhp_to_geo_op
    \/ rhp_to_geo_boundary_op
    \/ rhp_get_resolution_op
    \/ rhp_get_base_cell_op
    \/ rhp_is_valid_op
    \/ k_ring_op
    \/ cell_ring_op
    \/ rhp_to_parent_op
    \/ rhp_to_center_child_op
    \/ cell_area_op
    \/ geo_to_rhp_aggregate_op
    \/ rhp_to_parent_aggregate_op
    \/ Accessor

SpecAll == InitAll /\ [][NextAll]_vars

-----------------------------------------------------------------------------
(* Properties                                                              *)

MapModeOps ==
    {"rhp_get_resolution", "rhp_get_base_cell", "rhp_is_valid", "rhp_to_parent",
     "rhp_to_center_child", "cell_area", "rhp_to_geo", "rhp_to_geo_boundary",
     "k_ring", "cell_ring"}

(* processor(f(a)) for the cell function and the processor of the last call *)
Processed(c, a, mode) ==
    CASE c.op = "rhp_get_resolution" -> rhp_get_resolution(a)
      [] c.op = "rhp_get_base_cell" -> rhp_get_base_cell(a)
      [] c.op = "rhp_is_valid" -> rhp_is_valid(a)
      [] c.op = "rhp_to_parent" -> rhp_to_parent(a, c.res, mode)
      [] c.op = "rhp_to_center_child" -> rhp_to_center_child(a, c.res, mode)
      [] c.op = "cell_area" -> cell_area(a, c.arg[1])
      [] c.op = "rhp_to_geo" -> Point(rhp_to_geo(a))
      [] c.op = "rhp_to_geo_boundary" -> Polygon(rhp_to_geo_boundary(a))
      [] c.op \in {"k_ring", "cell_ring"} -> List(c.arg[a])

(* C1: a map-mode call that returns gives a table with the rows and the    *)
(* index of its input in the same order, every column other than the       *)
(* destination column unchanged, and processor(f(index[i])) in row i of    *)
(* the destination column; this holds at every call of a chain of calls.   *)
C1_MapModeFrame ==
    (Returned /\ call.op \in MapModeOps /\ ~call.flag) =>
        /\ out.tbl.index = df.index
        /\ Range(out.tbl.columns) = Range(df.columns) \cup {call.column}
        /\ \A c \in Range(df.columns) \ {call.column} : out.tbl.data[c] = df.data[c]
        /\ Len(out.tbl.data[call.column]) = NRows(df)
        /\ \A i \in 1..NRows(df) :
              out.tbl.data[call.column][i] = Processed(call, df.index[i].v, adapter.mode)

(* C1 witness: the second call of a chain returned, on a table of two rows *)
(* with different addresses that carries the column of the first call      *)
C1_Witness ==
    /\ Returned /\ call.op \in MapModeOps /\ ~call.flag
    /\ nops = 2
    /\ NRows(df) = 2 /\ df.index[1] # df.index[2]
    /\ Len(df.columns) = 2
    /\ call.column \notin Range(df.columns)
    /\ out.tbl.data[call.column][1] # out.tbl.data[call.column][2]

RingOps == {"k_ring", "cell_ring"}

(* The length of the sequence the cell function of the last call returned  *)
(* for row i of the input                                                  *)
SeqLen(i) == Len(call.arg[df.index[i].v].v)

(* Output row r has the index value and the column values of input row i *)
CopyOf(r, i) ==
    /\ out.tbl.index[r] = df.index[i]
    /\ \A c \in Range(df.columns) : out.tbl.data[c][r] = df.data[c][i]

(* C2: an explode-mode call that returns gives the sum of the lengths of   *)
(* the returned sequences as its number of rows, and every output row      *)
(* carries the index value and the other column values of an input row,    *)
(* each input row as often as its sequence is long.                        *)
C2_ExplodeRowCount ==
    (Returned /\ call.op \in RingOps /\ call.flag) =>
        /\ NRows(out.tbl) = SeqSum([i \in 1..NRows(df) |-> SeqLen(i)])
        /\ \A r \in 1..NRows(out.tbl) : \E i \in 1..NRows(df) : CopyOf(r, i)
        /\ \A i \in 1..NRows(df) :
              Cardinality({r \in 1..NRows(out.tbl) : CopyOf(r, i)}) =
                 SeqLen(i) * Cardinality({j \in 1..NRows(df) : df.index[j] = df.index[i]
                                             /\ \A c \in Range(df.columns) : df.data[c][j] = df.data[c][i]})

(* C6: in the table an explode-mode call returns, an input row whose       *)
(* sequence is empty has no row, and no row has a missing value in the     *)
(* destination column.                                                     *)
C6_EmptySequenceNoRow ==
    (Returned /\ call.op \in RingOps /\ call.flag) =>
        /\ \A i \in 1..NRows(df) :
              SeqLen(i) = 0 => ~\E r \in 1..NRows(out.tbl) : CopyOf(r, i)
        /\ \A r \in 1..NRows(out.tbl) : ~IsNull(out.tbl.data[call.column][r])

(* The ancestor of row i of the input at the resolution of the last call *)
Ancestor(i) ==
    IF call.op = "rhp_to_parent_aggregate"
    THEN VStr(SubSeq(df.index[i].v, 1, call.res.v + 1))
    ELSE IF df.kind = "gdf"
         THEN geo_to_rhp(df.data["geometry"][i].v[2], df.data["geometry"][i].v[1], call.res.v)
         ELSE geo_to_rhp(df.data["lat"][i], df.data["lng"][i], call.res.v)

(* The input of the last call can be aggregated at its resolution *)
Aggregable ==
    /\ call.res.t = "int"
    /\ \/ /\ call.op = "rhp_to_parent_aggregate"
          /\ AddressIndexed(df)
          /\ \A i \in 1..NRows(df) :
                RhpIsValidStr(df.index[i].v) /\ call.res.v < Len(df.index[i].v) - 1
       \/ /\ call.op = "geo_to_rhp_aggregate"
          /\ IF df.kind = "gdf"
             THEN \A i \in 1..NRows(df) : df.data["geometry"][i].t = "point"
             ELSE HasColumn(df, "lat") /\ HasColumn(df, "lng")

(* C3: an aggregation at a resolution returns a table with one row per     *)
(* distinct ancestor address, indexed by the ancestors under the name      *)
(* rhp_<two-digit resolution>, whose val column holds the sum of val over  *)
(* the input rows of that ancestor.                                        *)
C3_AncestorAggregation ==
    Aggregable =>
        /\ Returned
        /\ out.tbl.iname = ResColumn(call.res.v)
        /\ NRows(out.tbl) = Cardinality({Ancestor(i) : i \in 1..NRows(df)})
        /\ Range(out.tbl.index) = {Ancestor(i) : i \in 1..NRows(df)}
        /\ \A r \in 1..NRows(out.tbl) :
              out.tbl.data["val"][r] =
                 VInt(SeqSum([i \in 1..NRows(df) |->
                                 IF Ancestor(i) = out.tbl.index[r] THEN df.data["val"][i].v ELSE 0]))

(* The column names of the resolutions, written out *)
TwoDigitNames ==
    <<"rhp_00", "rhp_01", "rhp_02", "rhp_03", "rhp_04", "rhp_05", "rhp_06", "rhp_07",
      "rhp_08", "rhp_09", "rhp_10", "rhp_11", "rhp_12", "rhp_13", "rhp_14", "rhp_15",
      "rhp_16", "rhp_17", "rhp_18", "rhp_19">>

(* The coordinates (lat, lng) of row i of the input *)
LatLng(i) ==
    IF df.kind = "gdf"
    THEN <<df.data["geometry"][i].v[2], df.data["geometry"][i].v[1]>>
    ELSE <<df.data["lat"][i], df.data["lng"][i]>>

(* The addresses of a table returned by geo_to_rhp: its index or its column *)
Encoded(t, name, set_index) == IF set_index THEN t.index ELSE t.data[name]

(* C4: geo_to_rhp(resolution, set_index) that returns gives one address of *)
(* length resolution + 1 per input row, in input order and with duplicates *)
(* kept, under the name rhp_<two-digit resolution>: as the index, and not  *)
(* as a column, when set_index is true, as a column next to the unchanged  *)
(* index otherwise; the other columns are unchanged.                       *)
C4_GeoToRhp ==
    (Returned /\ call.op = "geo_to_rhp") =>
        LET name == TwoDigitNames[call.res.v + 1]
            t == out.tbl
        IN  /\ IF call.flag
               THEN t.iname = name /\ ~HasColumn(t, name) /\ name \notin DOMAIN t.data
               ELSE /\ t.index = df.index /\ t.iname = df.iname /\ HasColumn(t, name)
                    /\ ~HasColumn(df, name) => t.columns = Append(df.columns, name)
            /\ Len(Encoded(t, name, call.flag)) = NRows(df)
            /\ NRows(t) = NRows(df)
            /\ \A i \in 1..NRows(df) :
                  /\ Encoded(t, name, call.flag)[i] = geo_to_rhp(LatLng(i)[1], LatLng(i)[2], call.res.v)
                  /\ Len(Encoded(t, name, call.flag)[i].v) = call.res.v + 1
            /\ \A c \in Range(df.columns) \ {name} :
                  HasColumn(t, c) /\ t.data[c] = df.data[c]
            /\ Range(t.columns) \subseteq Range(df.columns) \cup {name}

(* C4 witness: geo_to_rhp(9) returned a table indexed by rhp_09 in which   *)
(* two rows of the same point share their address                          *)
C4_Witness ==
    /\ Returned /\ call.op = "geo_to_rhp" /\ call.flag /\ call.res = VInt(9)
    /\ NRows(df) = 2
    /\ out.tbl.iname = "rhp_09"
    /\ out.tbl.index = <<VStr(N216055147), VStr(N216055147)>>

(* Some geometry of the input is not a point *)
HasNonPoint ==
    /\ df.kind = "gdf"
    /\ \E i \in 1..NRows(df) : df.data["geometry"][i].t # "point"

(* C5: geo_to_rhp on a table of geometries, one of which is not a point,   *)
(* raises ValueError and returns no table.                                 *)
C5_NonPointFails ==
    (call.op = "geo_to_rhp" /\ HasNonPoint) => (Raised /\ out.err = "ValueError")

(* C5 witness: geo_to_rhp raised on a table whose first geometry is a      *)
(* point and whose second is a polygon                                     *)
C5_Witness ==
    /\ call.op = "geo_to_rhp" /\ Raised
    /\ df.kind = "gdf" /\ NRows(df) = 2
    /\ df.data["geometry"][1].t = "point"
    /\ df.data["geometry"][2].t = "polygon"

(* The cell function or the processor of the last call fails on address a: *)
(* the centre of an invalid address, the list of the neighbours of one, a  *)
(* mismatched resolution where the adapter raises                          *)
Fails(a) == IsRaise(Processed(call, a, adapter.mode))

(* C7: a strict map-mode call whose cell function fails on some row, as    *)
(* rhp_to_geo does on an invalid address, raises and returns no table.     *)
C7_FailFast ==
    (call.op \in MapModeOps /\ ~call.flag /\ \E i \in 1..NRows(df) : Fails(df.index[i].v))
        => Raised

(* C7 witness: rhp_to_geo raised on a table whose first address is valid   *)
(* and whose second is not                                                 *)
C7_Witness ==
    /\ call.op = "rhp_to_geo" /\ Raised
    /\ NRows(df) = 2
    /\ RhpIsValidStr(df.index[1].v)
    /\ ~RhpIsValidStr(df.index[2].v)

(* C8: rhp_to_geo_boundary returns, with the rows of its input in the same *)
(* order, the empty polygon in the geometry of every row with an invalid   *)
(* address and the closed ring of the cell in that of every other row.     *)
C8_BoundaryLenient ==
    (call.op = "rhp_to_geo_boundary") =>
        /\ Returned
        /\ out.tbl.index = df.index
        /\ Len(out.tbl.data["geometry"]) = NRows(df)
        /\ \A i \in 1..NRows(df) :
              LET g == out.tbl.data["geometry"][i]
                  a == df.index[i].v
              IN  /\ g.t = "polygon"
                  /\ ~RhpIsValidStr(a) => g.v = <<>>
                  /\ RhpIsValidStr(a) =>
                        /\ Len(g.v) = 5
                        /\ g.v[1] = g.v[Len(g.v)]
                        /\ \A k \in 1..4 : g.v[k] = [cell |-> a, corner |-> k]

(* C8 witness: the boundaries of a table with a valid and an invalid       *)
(* address                                                                 *)
C8_Witness ==
    /\ call.op = "rhp_to_geo_boundary" /\ Returned
    /\ NRows(df) = 2
    /\ RhpIsValidStr(df.index[1].v)
    /\ ~RhpIsValidStr(df.index[2].v)
    /\ out.tbl.data["geometry"][2] = VPolygon(<<>>)
    /\ out.tbl.data["geometry"][1] # VPolygon(<<>>)

(* The requested resolution of the last call is not coarser than the cell *)
ChildResolutionFits(a) == call.res.t = "none" \/ call.res.v >= Len(a) - 1

OutRow(r) ==
    [index |-> out.tbl.index[r],
     data |-> [c \in Range(out.tbl.columns) |-> out.tbl.data[c][r]]]

(* Row i of the input with x in the destination column of the last call *)
RowWith(i, x) ==
    [index |-> df.index[i],
     data |-> [c \in Range(df.columns) \cup {call.column} |->
                 IF c = call.column THEN x ELSE df.data[c][i]]]

(* The group of input row i: one row per element of its sequence, in the   *)
(* order of the sequence; a row of an empty sequence has the one row with  *)
(* a missing value if it is among kept, and none otherwise                 *)
Group(i, kept) ==
    LET s == call.arg[df.index[i].v].v
    IN  IF s = <<>> THEN (IF i \in kept THEN <<RowWith(i, VNone)>> ELSE <<>>)
        ELSE [j \in 1..Len(s) |-> RowWith(i, VStr(s[j]))]

(* C12: the rows of the table an explode-mode call returns are the groups  *)
(* of the input rows one after the other in the order of the input rows,   *)
(* and the destination values within a group are the elements of the       *)
(* sequence of that row in the order of the sequence.                      *)
C12_ExplodeOrder ==
    (Returned /\ call.op \in RingOps /\ call.flag) =>
        \E kept \in SUBSET {i \in 1..NRows(df) : SeqLen(i) = 0} :
            [r \in 1..NRows(out.tbl) |-> OutRow(r)] =
                Flatten([i \in 1..NRows(df) |-> Group(i, kept)])

(* C12 witness: an explode of two rows of different addresses, the first   *)
(* not the smaller one, each with a sequence of two different elements     *)
C12_Witness ==
    /\ Returned /\ call.op \in RingOps /\ call.flag
    /\ df.index = <<VStr(N216055611), VStr(N2)>>
    /\ SeqLen(1) = 2 /\ SeqLen(2) = 2
    /\ NRows(out.tbl) = 4
    /\ out.tbl.index = <<VStr(N216055611), VStr(N216055611), VStr(N2), VStr(N2)>>
    /\ out.tbl.data[call.column][1] # out.tbl.data[call.column][2]
    /\ out.tbl.data[call.column][3] # out.tbl.data[call.column][4]

(* C13: no step of any operation changes the table the caller started      *)
(* with: its index, its columns and every value stay what they were before *)
(* the first call, whether the call returns or raises and whatever the     *)
(* calls before it were.                                                   *)
C13_InputUnchanged == [][input'.tbl = input.tbl]_vars

(* C13 witness: an encoding at resolution 9 returned, and an exploding     *)
(* k_ring on its result returned four rows; the input table still has its  *)
(* two rows, its range index and its three columns                         *)
C13_Witness ==
    /\ nops = 2
    /\ ~input.self
    /\ call.op = "k_ring" /\ call.flag /\ Returned
    /\ df.iname = "rhp_09"
    /\ NRows(out.tbl) = 4
    /\ input.tbl.iname = ""
    /\ input.tbl.index = RangeIndex(2)
    /\ input.tbl.columns = <<"lat", "lng", "val">>
    /\ input.tbl # df

(* C14: k_ring or cell_ring on a table that already has its destination    *)
(* column raises and returns no table when explode is true; when explode   *)
(* is false it returns the table with the same rows and columns, the       *)
(* destination column at its place holding the new lists.                  *)
C14_ExplodeNeverOverwrites ==
    (call.op \in RingOps /\ HasColumn(df, call.column)) =>
        IF call.flag
        THEN Raised
        ELSE /\ Returned
             /\ out.tbl.index = df.index
             /\ out.tbl.columns = df.columns
             /\ \A c \in Range(df.columns) \ {call.column} : out.tbl.data[c] = df.data[c]
             /\ out.tbl.data[call.column] =
                    [i \in 1..NRows(df) |-> call.arg[df.index[i].v]]

(* C14 witness: an exploding k_ring raised ValueError on the two rows an   *)
(* earlier exploding k_ring returned for one cell                          *)
C14_Witness ==
    /\ call.op = "k_ring" /\ call.flag
    /\ Raised /\ out.err = "ValueError"
    /\ HasColumn(df, "rhp_k_ring")
    /\ NRows(df) = 2
    /\ df.data["rhp_k_ring"][1].t = "str"
    /\ df.data["rhp_k_ring"][1] # df.data["rhp_k_ring"][2]

====
